---- MODULE Spec2Model ----
(***************************************************************************)
(* A model of the compliance pipeline: the Detail Enricher                 *)
(* (amazon_scraper.py), the Image OCR Processor (label_ocr2.py), the       *)
(* Parameter Extractor (extract_parameters.py) and the Validator           *)
(* (validator.py).  Each stage function runs over a list of product        *)
(* records; the stage that runs is fixed by the initial state.             *)
(*                                                                         *)
(* Python values: a dict is a function from its keys, a list a sequence,   *)
(* the empty dict and the empty list are both <<>>.  What a coroutine      *)
(* returns is wrapped: Dict(d), None, or Raised(e).  An exception is       *)
(* given by its message, the string str(e).                                *)
(***************************************************************************)
EXTENDS Integers, Sequences, FiniteSets, TLC

VARIABLES
    stage,          \* the stage function that runs: "enrich", "ocr", "extract", "validate"
    products,       \* the stage's input list
    api_keys,       \* the api_keys argument
    max_retries,    \* the max_retries argument (Validator)
    llm,            \* the LLM in this run: the names its answers mention, the errors its calls
                    \* end in, the top-level keys its answers carry beyond the three asked for
    tasks,          \* per product: the frame of its coroutine (pc and locals)
    returned,       \* per product: what its coroutine returned, as gather sees it
    api_semaphore,  \* the module's asyncio.Semaphore(1): [value, waiters]
    sem,            \* the Enricher's asyncio.Semaphore(5): [value, waiters]
    batch_i,        \* the loop variable i of the batch loop (0-based)
    finished,       \* the tasks of the latest gather that are done, in completion order
    result,         \* the list the stage function builds and returns
    main_pc,        \* main() and the stage function: "main", "entry", "loop", "gather",
                    \* "returned", "raised", "failed", "saved"
    files,          \* the files of the stage: is the input there, is the rules file
                    \* there, and what main() has written to the output file
    web             \* the image sources a product page lists, in page order

vars == <<stage, products, api_keys, max_retries, llm, tasks, returned,
          api_semaphore, sem, batch_i, finished, result, main_pc, files, web>>

\* The arguments of the stage function, the files and the web around it
args == <<stage, products, api_keys, max_retries, llm, files, web>>

\* The stage function's own frame
main == <<batch_i, result, main_pc>>

----------------------------------------------------------------------------
(* Bounds of the model *)

MaxExtra == 1       \* products beyond the first batch
MaxKeys == 2
MaxRetries == 3

----------------------------------------------------------------------------
(* Python values *)

None == [type |-> "NoneType"]
Dict(d) == [type |-> "dict", value |-> d]
Raised(e) == [type |-> "Exception", value |-> e]
NotReturned == [type |-> "pending"]

\* d.get(k, default)
Get(d, k, default) == IF k \in DOMAIN d THEN d[k] ELSE default

\* bool(x) of a list or a dict
Truthy(x) == DOMAIN x # {}

\* d.update(r) / {**d, **r}
Update(d, r) == [k \in (DOMAIN d) \cup (DOMAIN r) |-> IF k \in DOMAIN r THEN r[k] ELSE d[k]]

Min(a, b) == IF a < b THEN a ELSE b

RECURSIVE Pow2(_)
Pow2(n) == IF n = 0 THEN 1 ELSE 2 * Pow2(n - 1)

\* sep.join(strs)
RECURSIVE Join(_, _)
Join(strs, sep) ==
    IF strs = <<>> THEN ""
    ELSE IF Len(strs) = 1 THEN strs[1]
    ELSE strs[1] \o sep \o Join(Tail(strs), sep)

\* sub in s
Contains(s, sub) ==
    \E n \in 1..(Len(s) - Len(sub) + 1) : SubSeq(s, n, n + Len(sub) - 1) = sub

\* s.startswith(prefix)
StartsWith(s, prefix) == Len(s) >= Len(prefix) /\ SubSeq(s, 1, Len(prefix)) = prefix

\* "429" in str(e); an exception is modelled by its message str(e)
Has429(e) == Contains(e, "429")

----------------------------------------------------------------------------
(* The semaphore *)

NewSemaphore(n) == [value |-> n, waiters |-> <<>>]

\* Semaphore.locked()
Locked(s) == s.value = 0 \/ s.waiters # <<>>

\* The task that release() wakes, 0 if none waits
Woken(s) == IF s.waiters = <<>> THEN 0 ELSE Head(s.waiters)

\* release(): the permit goes to the first waiter, else back to the semaphore
Released_Kept(s) == s
Released(s) ==
    IF s.waiters = <<>> THEN [s EXCEPT !.value = @ + 1]
    ELSE [s EXCEPT !.waiters = Tail(@)]

----------------------------------------------------------------------------
(* The LLM collaborator: what one generate_content call, followed by the   *)
(* parsing and shape validation of its text, can end in.                   *)

\* Exceptions, each given by its message str(e)
RateLimitError == "429 Resource has been exhausted (e.g. check quota)."
ServerError == "500 An internal error has occurred."
JSONDecodeError == "Expecting property name enclosed in double quotes: line 1 column 430 (char 429)"
InvalidStructure == "Invalid response structure"

Exceptions == {RateLimitError, ServerError, JSONDecodeError, InvalidStructure}

\* An answer with the keys asked for and no other
NoExtras == {<<>>}

\* Top-level keys an answer may carry beyond the three asked for
ExtraKeys ==
    {<<>>,
     [confidence |-> "high"],
     [product_name |-> "Unbranded"],
     [report_id |-> "report_1", price |-> "0"]}

\* The names an answer may carry, in the order the answer lists them
ReplyOrder == <<"mrp", "state", "country_of_origin", "consumer_care_details",
                "net_quantity", "manufacturer_address", "manufacturer_name">>

AllNames == {ReplyOrder[n] : n \in DOMAIN ReplyOrder}

\* How an answer treats one name
Treatments == {"absent", "compliant", "violation", "silent"}

\* One shape-valid entry of validation_results
Entry(name, how) ==
    [name |-> name,
     value |-> IF how = "compliant" THEN "stated" ELSE "non_stated",
     context |-> "Product Information",
     is_compliant |-> (how = "compliant"),
     violation |-> IF how = "violation" THEN "Invalid " \o name ELSE ""]

RECURSIVE EntriesFrom(_, _)
EntriesFrom(n, how) ==
    IF n > Len(ReplyOrder) THEN <<>>
    ELSE IF ReplyOrder[n] \in DOMAIN how /\ how[ReplyOrder[n]] # "absent"
         THEN <<Entry(ReplyOrder[n], how[ReplyOrder[n]])>> \o EntriesFrom(n + 1, how)
         ELSE EntriesFrom(n + 1, how)

\* The verdict the model itself states in its answer
StatedDecision(how) ==
    IF \E name \in DOMAIN how : how[name] \in {"violation", "silent"} THEN "DENIED" ELSE "APPROVED"

\* The shape-valid JSON objects the model may answer with
ValidatorResponses(names) ==
    {[validation_results |-> EntriesFrom(1, how), policy_decision |-> StatedDecision(how),
      reason |-> "as judged by the model"] : how \in [names -> Treatments]}

\* How one LLM call ends: the exception raised by the call, the parsing or the
\* shape validation, or the validated JSON object; the shape validation asks
\* for three keys and lets any other top-level key pass
ValidatorOutcomes ==
    {[ok |-> FALSE, e |-> e] : e \in llm.errors}
    \cup {[ok |-> TRUE, response |-> Update(r, x)] :
                r \in ValidatorResponses(llm.names), x \in llm.extras}

----------------------------------------------------------------------------
(* Validator: process_product *)

mandatory_params == <<"manufacturer_name", "manufacturer_address", "net_quantity",
                      "consumer_care_details", "country_of_origin">>

error_params == <<"manufacturer_name", "manufacturer_address", "net_quantity",
                  "consumer_care_address", "consumer_care_phone", "consumer_care_email",
                  "country_of_origin", "state">>

Range(s) == {s[n] : n \in DOMAIN s}

MissingContext(param) ==
    IF param \in {"manufacturer_name", "manufacturer_address"} THEN "Manufacturing Details"
    ELSE IF param = "net_quantity" THEN "Product Information"
    ELSE IF param = "consumer_care_details" THEN "Consumer Care"
    ELSE "Country of Origin"

ErrorContext(param) ==
    IF param \in {"manufacturer_name", "manufacturer_address"} THEN "Manufacturing Details"
    ELSE IF param = "net_quantity" THEN "Product Information"
    ELSE IF param \in {"consumer_care_address", "consumer_care_phone", "consumer_care_email"}
         THEN "Consumer Care"
    ELSE "Country of Origin"

MissingEntry(param) ==
    [name |-> param, value |-> "non_stated", context |-> MissingContext(param),
     is_compliant |-> FALSE, violation |-> "Missing mandatory parameter: " \o param]

\* The entries appended for the mandatory parameters absent from present_params
RECURSIVE MissingFrom(_, _)
MissingFrom(n, present_params) ==
    IF n > Len(mandatory_params) THEN <<>>
    ELSE IF mandatory_params[n] \notin present_params
         THEN <<MissingEntry(mandatory_params[n])>> \o MissingFrom(n + 1, present_params)
         ELSE MissingFrom(n + 1, present_params)

WithMissing(validation_results) ==
    validation_results \o MissingFrom(1, {validation_results[n].name : n \in DOMAIN validation_results})

\* Whether an entry contributes its violation to flags
Flagged(res) == ~res.is_compliant /\ res.violation # "" /\ res.name # "state"

RECURSIVE Flags(_)
Flags(validation_results) ==
    IF validation_results = <<>> THEN <<>>
    ELSE IF Flagged(Head(validation_results))
         THEN <<Head(validation_results).violation>> \o Flags(Tail(validation_results))
         ELSE Flags(Tail(validation_results))

\* hash(json.dumps(parameters)) % 10000: a stand-in for the interpreter's string hash
ParametersHash(parameters) == (7919 * (Len(parameters) + 1)) % 10000

ReportId(product, suffix) == "report_" \o Get(product, "product_id", "unknown") \o "_" \o suffix

\* The record returned when there is nothing to validate
NoDataRecord_ErrorReport(product) ==
    Update(product,
           [validation_results |-> <<>>,
            validation_flags |-> <<"No compliance parameters or scraped results provided">>,
            policy_decision |-> "DENIED",
            reason |-> "Missing all mandatory compliance parameters and scraped results",
            report_id |-> ReportId(product, "error")])
NoDataRecord(product) ==
    Update(product,
           [validation_results |-> <<>>,
            validation_flags |-> <<"No compliance parameters or scraped results provided">>,
            policy_decision |-> "DENIED",
            reason |-> "Missing all mandatory compliance parameters and scraped results",
            report_id |-> ReportId(product, "no_data")])

\* The record returned for a validated answer
ValidatedRecord(product, response) ==
    LET validation_results == WithMissing(response.validation_results)
        flags == Flags(validation_results)
        res == Update(response,
                      [validation_results |-> validation_results,
                       policy_decision |-> IF flags = <<>> THEN "APPROVED" ELSE "DENIED",
                       reason |-> IF flags = <<>> THEN "fully compliant" ELSE Join(flags, "; "),
                       report_id |-> ReportId(product,
                            ToString(ParametersHash(Get(product, "compliance_parameters", <<>>))))])
    IN  Update(product, res)

ErrorEntry(param) ==
    [name |-> param, value |-> "non_stated", context |-> ErrorContext(param),
     is_compliant |-> FALSE, violation |-> "API processing error"]

\* The record returned when the last key has failed
ErrorRecord_Approved(product, e) ==
    Update(product,
           [validation_results |-> [n \in DOMAIN error_params |-> ErrorEntry(error_params[n])],
            policy_decision |-> "APPROVED",
            reason |-> "fully compliant",
            report_id |-> ReportId(product, "error")])
ErrorRecord(product, e) ==
    Update(product,
           [validation_results |-> [n \in DOMAIN error_params |-> ErrorEntry(error_params[n])],
            policy_decision |-> "DENIED",
            reason |-> "API processing error: " \o e,
            report_id |-> ReportId(product, "error")])

\* wait_time = (2 ** attempt) * 1
WaitTime_Linear(attempt) == 2 * attempt
WaitTime(attempt) == Pow2(attempt) * 1

\* if "429" in str(e) and attempt < max_retries - 1
ShouldBackOff_OneMore(e, attempt) == Has429(e) /\ attempt < max_retries
ShouldBackOff(e, attempt) == Has429(e) /\ attempt < max_retries - 1

----------------------------------------------------------------------------
(* Tasks: the coroutines process_product(product) that gather runs *)

\* A frame before its coroutine exists; calls and slept count the LLM calls
\* made and the seconds slept so far, last is how the latest LLM call ended
NewTask == [pc |-> "pending", api_key_index |-> 0, attempt |-> 0, wait_time |-> 0,
            calls |-> 0, slept |-> 0, last |-> "none"]

\* The frame after its coroutine has returned
DoneTask(last) == [NewTask EXCEPT !.pc = "done", !.last = last]

\* products[i:i + batch_size], as indices into products (1-based)
Batch_Rest(i, batch_size) == {p \in DOMAIN products : i + 1 <= p}
Batch(i, batch_size) == {p \in DOMAIN products : i + 1 <= p /\ p <= i + batch_size}

\* The event loop runs the coroutines of a gather in the order they were passed
MayStart(p) ==
    /\ p \in DOMAIN tasks
    /\ tasks[p].pc = "ready"
    /\ \A q \in DOMAIN tasks : q < p => tasks[q].pc # "ready"

\* The LLM calls in flight
InFlight == {p \in DOMAIN tasks : tasks[p].pc = "call"}

\* p leaves `async with api_semaphore` and returns retval
ReturnReleasing(p, retval, last) ==
    /\ returned' = [returned EXCEPT ![p] = retval]
    /\ finished' = Append(finished, p)
    /\ api_semaphore' = Released(api_semaphore)
    /\ tasks' = [q \in DOMAIN tasks |->
                    IF q = p THEN DoneTask(last)
                    ELSE IF q = Woken(api_semaphore) THEN [tasks[q] EXCEPT !.pc = "granted"]
                    ELSE tasks[q]]

\* p returns retval without having touched the semaphore
ReturnPlain(p, retval) ==
    /\ returned' = [returned EXCEPT ![p] = retval]
    /\ finished' = Append(finished, p)
    /\ tasks' = [tasks EXCEPT ![p] = DoneTask("none")]

\* p, holding the permit, issues model.generate_content with key k, attempt a
IssueCall(p, k, a) ==
    /\ tasks' = [tasks EXCEPT ![p] = [@ EXCEPT !.pc = "call", !.api_key_index = k,
                                                 !.attempt = a, !.calls = @ + 1]]
    /\ UNCHANGED <<returned, finished>>

\* Validator: p enters the loops over api_keys and range(max_retries)
ValidatorEnterLoops(p) ==
    IF api_keys = <<>> \/ max_retries = 0
    THEN ReturnReleasing(p, None, "none")
    ELSE /\ IssueCall(p, 0, 0)
         /\ UNCHANGED api_semaphore

\* Validator: process_product runs from its start to its first suspension
ValidatorStart(p) ==
    /\ stage = "validate"
    /\ MayStart(p)
    /\ LET product == products[p]
           parameters == Get(product, "compliance_parameters", <<>>)
           scraped_results == Get(product, "scraped_results", <<>>)
       IN  IF ~Truthy(parameters) /\ ~Truthy(scraped_results)
           THEN /\ ReturnPlain(p, Dict(NoDataRecord(product)))
                /\ UNCHANGED api_semaphore
           ELSE IF Locked(api_semaphore)
           THEN /\ api_semaphore' = [api_semaphore EXCEPT !.waiters = Append(@, p)]
                /\ tasks' = [tasks EXCEPT ![p] = [@ EXCEPT !.pc = "acquire"]]
                /\ UNCHANGED <<returned, finished>>
           ELSE IF api_keys = <<>> \/ max_retries = 0
           THEN /\ ReturnPlain(p, None)
                /\ UNCHANGED api_semaphore
           ELSE /\ api_semaphore' = [api_semaphore EXCEPT !.value = @ - 1]
                /\ IssueCall(p, 0, 0)
    /\ UNCHANGED <<args, main, sem>>

\* Validator: a waiter that was handed the permit resumes
ValidatorResume(p) ==
    /\ stage = "validate"
    /\ p \in DOMAIN tasks
    /\ tasks[p].pc = "granted"
    /\ ValidatorEnterLoops(p)
    /\ UNCHANGED <<args, main, sem>>

\* Validator: the LLM call of p ends; the step runs to the next suspension
ValidatorReturn(p) ==
    /\ stage = "validate"
    /\ p \in DOMAIN tasks
    /\ tasks[p].pc = "call"
    /\ \E o \in ValidatorOutcomes :
         LET t == tasks[p] IN
         IF o.ok
         THEN ReturnReleasing(p, Dict(ValidatedRecord(products[p], o.response)), "ok")
         ELSE IF ShouldBackOff(o.e, t.attempt)
         THEN /\ tasks' = [tasks EXCEPT ![p] = [@ EXCEPT !.pc = "sleep", !.last = o.e,
                                                         !.wait_time = WaitTime(t.attempt)]]
              /\ UNCHANGED <<returned, finished, api_semaphore>>
         ELSE IF t.api_key_index < Len(api_keys) - 1
         THEN /\ tasks' = [tasks EXCEPT ![p] = [@ EXCEPT !.pc = "call", !.last = o.e,
                                                         !.api_key_index = @ + 1,
                                                         !.attempt = 0, !.calls = @ + 1]]
              /\ UNCHANGED <<returned, finished, api_semaphore>>
         ELSE ReturnReleasing(p, Dict(ErrorRecord(products[p], o.e)), o.e)
    /\ UNCHANGED <<args, main, sem>>

\* Validator: asyncio.sleep(wait_time) is over; the next attempt on the same key
ValidatorWake(p) ==
    /\ stage = "validate"
    /\ p \in DOMAIN tasks
    /\ tasks[p].pc = "sleep"
    /\ tasks' = [tasks EXCEPT ![p] = [@ EXCEPT !.pc = "call", !.attempt = @ + 1,
                                               !.calls = @ + 1,
                                               !.slept = @ + tasks[p].wait_time]]
    /\ UNCHANGED <<args, main, sem, returned, finished, api_semaphore>>

\* The batch size of a stage
batch_size_validator == 3
batch_size_extractor == 4

BatchSize == IF stage = "validate" THEN batch_size_validator ELSE batch_size_extractor

\* What gather(*tasks, return_exceptions=True) returns for the batch at i
GatherResults_CompletionOrder(i) == [n \in DOMAIN finished |-> returned[finished[n]]]
GatherResults(i) == [n \in 1..Cardinality(Batch(i, BatchSize)) |-> returned[i + n]]

\* The batch loop: `for i in range(0, len(products), batch_size)` creates the
\* coroutines of the next batch, or the stage function returns result
NextBatch ==
    /\ stage \in {"extract", "validate"}
    /\ main_pc = "loop"
    /\ IF batch_i < Len(products)
       THEN /\ tasks' = [p \in DOMAIN tasks |->
                            IF p \in Batch(batch_i, BatchSize)
                            THEN [tasks[p] EXCEPT !.pc = "ready"] ELSE tasks[p]]
            /\ finished' = <<>>
            /\ main_pc' = "gather"
       ELSE /\ main_pc' = "returned"
            /\ UNCHANGED <<tasks, finished>>
    /\ UNCHANGED <<args, returned, api_semaphore, sem, batch_i, result>>

\* result.extend(await asyncio.gather(*tasks, return_exceptions=True))
Gather ==
    /\ stage \in {"extract", "validate"}
    /\ main_pc = "gather"
    /\ \A p \in Batch(batch_i, BatchSize) : tasks[p].pc = "done"
    /\ result' = result \o GatherResults(batch_i)
    /\ batch_i' = batch_i + BatchSize
    /\ main_pc' = "loop"
    /\ UNCHANGED <<args, tasks, returned, api_semaphore, sem, finished>>

----------------------------------------------------------------------------
(* Inputs *)

ProductId(n) == "B0" \o ToString(n)

Stub(n) == [product_id |-> ProductId(n), product_name |-> "Biscuits " \o ToString(n),
            price |-> "45"]

non_stated_scraped_results ==
    [mrp |-> "non_stated", manufacturer_address |-> "non_stated",
     packer_address |-> "non_stated", item_weight |-> "non_stated"]

\* The records the Validator reads, by what they carry
ValidatorKinds == {"absent", "empty", "parameters", "scraped"}

ValidatorInput(n, kind) ==
    IF kind = "absent" THEN Stub(n)
    ELSE IF kind = "empty"
    THEN Update(Stub(n), [compliance_parameters |-> <<>>, scraped_results |-> <<>>])
    ELSE IF kind = "parameters"
    THEN Update(Stub(n),
                [compliance_parameters |->
                    <<[name |-> "net_quantity", value |-> "500g", context |-> "Product Information"]>>,
                 scraped_results |-> <<>>])
    ELSE Update(Stub(n), [compliance_parameters |-> <<>>,
                          scraped_results |-> [non_stated_scraped_results EXCEPT !.item_weight = "500 g"]])

\* Lists of n products, all carrying parameters but at most one, which has no data
ValidatorLists(n) ==
    {[p \in 1..n |-> ValidatorInput(p, IF p = odd THEN "empty" ELSE "parameters")] :
        odd \in 0..n}

KeyLists == {[n \in 1..k |-> "key" \o ToString(n)] : k \in 0..MaxKeys}

\* sem = asyncio.Semaphore(5)
sem_permits == 5

EnricherSemaphore_SixPermits == NewSemaphore(sem_permits + 1)
EnricherSemaphore == NewSemaphore(sem_permits)

\* api_semaphore = asyncio.Semaphore(1)
ApiSemaphore_TwoPermits == NewSemaphore(2)
ApiSemaphore == NewSemaphore(1)

\* An output file that main() has not written
NotWritten == [written |-> FALSE, data |-> <<>>]

\* The working directory of a run that finds its files
FilesPresent == [input |-> TRUE, rules |-> TRUE, output |-> NotWritten]

\* The image sources of a page: those in HostedImages stand for files under the
\* product's own path, the others are taken as they are written
HostedImages == {"/a.jpg", "/b.png", "/c.gif"}
DefaultListing == <<"/a.jpg", "/a.jpg", "http://m.media-amazon.com/d.jpg", "/b.png", "/c.gif">>

InitRun ==
    /\ files = FilesPresent
    /\ web = DefaultListing
    /\ tasks = [p \in DOMAIN products |-> NewTask]
    /\ returned = [p \in DOMAIN products |-> NotReturned]
    /\ api_semaphore = ApiSemaphore
    /\ sem = EnricherSemaphore
    /\ batch_i = 0
    /\ finished = <<>>
    /\ result = <<>>
    /\ main_pc = "loop"

\* validate_compliance_parameters(products, api_keys, max_retries=...)
InitValidate ==
    /\ stage = "validate"
    /\ \E n \in 0..(batch_size_validator + MaxExtra) : products \in ValidatorLists(n)
    /\ api_keys \in KeyLists
    /\ max_retries \in 0..MaxRetries
    /\ llm = [names |-> {}, errors |-> {RateLimitError, InvalidStructure},
             extras |-> NoExtras]
    /\ InitRun

\* main(): two API keys and the default max_retries, here on one product with
\* something to validate and an LLM that answers about any name
default_max_retries == 3

InitVerdict ==
    /\ stage = "validate"
    /\ products = <<ValidatorInput(1, "parameters")>>
    /\ api_keys = <<"GEMINI_API_KEY", "GEMINI_API_KEY_2">>
    /\ max_retries = default_max_retries
    /\ llm = [names |-> AllNames, errors |-> Exceptions,
             extras |-> NoExtras]
    /\ InitRun

\* One product of any kind, any keys and retries, and an LLM of few words
InitRetry ==
    /\ stage = "validate"
    /\ products \in {<<ValidatorInput(1, kind)>> : kind \in ValidatorKinds}
    /\ api_keys \in KeyLists
    /\ max_retries \in 0..MaxRetries
    /\ llm = [names |-> {}, errors |-> Exceptions,
             extras |-> NoExtras]
    /\ InitRun

NextValidate ==
    \/ NextBatch
    \/ Gather
    \/ \E p \in DOMAIN tasks : ValidatorStart(p)
    \/ \E p \in DOMAIN tasks : ValidatorResume(p)
    \/ \E p \in DOMAIN tasks : ValidatorReturn(p)
    \/ \E p \in DOMAIN tasks : ValidatorWake(p)

\* With a single product no coroutine ever waits for the permit
NextValidateOne ==
    \/ NextBatch
    \/ Gather
    \/ \E p \in DOMAIN tasks : ValidatorStart(p)
    \/ \E p \in DOMAIN tasks : ValidatorReturn(p)
    \/ \E p \in DOMAIN tasks : ValidatorWake(p)

SpecValidate == InitValidate /\ [][NextValidate]_vars

\* main()'s keys and retries on lists of products; the event loop runs whatever
\* is ready, and every LLM call and every sleep ends
InitPermit ==
    /\ stage = "validate"
    /\ \E n \in 0..(batch_size_validator + MaxExtra) : products \in ValidatorLists(n)
    /\ api_keys = <<"GEMINI_API_KEY", "GEMINI_API_KEY_2">>
    /\ max_retries = default_max_retries
    /\ llm = [names |-> {}, errors |-> {RateLimitError, InvalidStructure},
             extras |-> NoExtras]
    /\ InitRun

SpecPermit == InitPermit /\ [][NextValidate]_vars /\ WF_vars(NextValidate)

SpecVerdict == InitVerdict /\ [][NextValidateOne]_vars

SpecRetry == InitRetry /\ [][NextValidateOne]_vars


----------------------------------------------------------------------------
(* Parameter Extractor: process_product *)

placeholder_names == <<"manufacturer_name", "manufacturer_address", "net_quantity",
                       "consumer_care_address", "consumer_care_phone", "consumer_care_email",
                       "country_of_origin", "state">>

PlaceholderContext(name) ==
    IF name \in {"manufacturer_name", "manufacturer_address"} THEN "Manufacturing Details"
    ELSE IF name = "net_quantity" THEN "Product Information"
    ELSE IF name \in {"consumer_care_address", "consumer_care_phone", "consumer_care_email"}
         THEN "Consumer Care"
    ELSE "Country of Origin"

\* The list of eight "non_stated" parameters
PlaceholderParameters_Empty == <<>>
PlaceholderParameters ==
    [n \in DOMAIN placeholder_names |->
        [name |-> placeholder_names[n], value |-> "non_stated",
         context |-> PlaceholderContext(placeholder_names[n])]]

\* The shape-valid JSON arrays the model may answer with
RECURSIVE ParametersFrom(_, _)
ParametersFrom(n, how) ==
    IF n > Len(ReplyOrder) THEN <<>>
    ELSE IF ReplyOrder[n] \in DOMAIN how /\ how[ReplyOrder[n]] # "absent"
         THEN <<[name |-> ReplyOrder[n], value |-> how[ReplyOrder[n]],
                 context |-> PlaceholderContext(ReplyOrder[n])]>> \o ParametersFrom(n + 1, how)
         ELSE ParametersFrom(n + 1, how)

ExtractorResponses(names) ==
    {ParametersFrom(1, how) : how \in [names -> {"absent", "non_stated", "stated on the label"}]}

ExtractorOutcomes ==
    {[ok |-> FALSE, e |-> e] : e \in llm.errors}
    \cup {[ok |-> TRUE, response |-> r] : r \in ExtractorResponses(llm.names)}

\* product_info with compliance_parameters set
WithParameters(product, parameters) == Update(product, [compliance_parameters |-> parameters])

\* ocr_text = " ".join(product.get("ocr_results", []))
OcrText(product) == Join(Get(product, "ocr_results", <<>>), " ")

\* Extractor: process_product runs from its start to its first suspension
ExtractorStart(p) ==
    /\ stage = "extract"
    /\ MayStart(p)
    /\ IF OcrText(products[p]) = ""
       THEN /\ ReturnPlain(p, Dict(WithParameters(products[p], PlaceholderParameters)))
            /\ UNCHANGED api_semaphore
       ELSE IF Locked(api_semaphore)
       THEN /\ api_semaphore' = [api_semaphore EXCEPT !.waiters = Append(@, p)]
            /\ tasks' = [tasks EXCEPT ![p] = [@ EXCEPT !.pc = "acquire"]]
            /\ UNCHANGED <<returned, finished>>
       ELSE IF api_keys = <<>>
       THEN /\ ReturnPlain(p, None)
            /\ UNCHANGED api_semaphore
       ELSE /\ api_semaphore' = [api_semaphore EXCEPT !.value = @ - 1]
            /\ IssueCall(p, 0, 0)
    /\ UNCHANGED <<args, main, sem>>

\* Extractor: a waiter that was handed the permit resumes
ExtractorResume(p) ==
    /\ stage = "extract"
    /\ p \in DOMAIN tasks
    /\ tasks[p].pc = "granted"
    /\ IF api_keys = <<>>
       THEN ReturnReleasing(p, None, "none")
       ELSE /\ IssueCall(p, 0, 0)
            /\ UNCHANGED api_semaphore
    /\ UNCHANGED <<args, main, sem>>

\* Extractor: the LLM call of p ends; the step runs to the next suspension
ExtractorReturn(p) ==
    /\ stage = "extract"
    /\ p \in DOMAIN tasks
    /\ tasks[p].pc = "call"
    /\ \E o \in ExtractorOutcomes :
         IF o.ok
         THEN ReturnReleasing(p, Dict(WithParameters(products[p], o.response)), "ok")
         ELSE IF tasks[p].api_key_index < Len(api_keys) - 1
         THEN /\ tasks' = [tasks EXCEPT ![p] = [@ EXCEPT !.pc = "call", !.last = o.e,
                                                         !.api_key_index = @ + 1,
                                                         !.calls = @ + 1]]
              /\ UNCHANGED <<returned, finished, api_semaphore>>
         ELSE ReturnReleasing(p, Dict(WithParameters(products[p], PlaceholderParameters)), o.e)
    /\ UNCHANGED <<args, main, sem>>

\* The records the Extractor reads, by their ocr_results
ExtractorKinds == {"absent", "empty", "text"}

ExtractorInput(n, kind) ==
    IF kind = "absent" THEN Stub(n)
    ELSE IF kind = "empty" THEN Update(Stub(n), [all_images |-> <<>>, ocr_results |-> <<>>])
    ELSE Update(Stub(n), [all_images |-> <<"https://m.media-amazon.com/images/I/1.jpg">>,
                          ocr_results |-> <<"Net Qty 500g", "Mfd by ACME Foods, Pune">>])

\* Lists of n products, all with OCR text but at most one, which has none
ExtractorLists(n) ==
    {[p \in 1..n |-> ExtractorInput(p, IF p = odd THEN "empty" ELSE "text")] : odd \in 0..n}

\* extract_compliance_parameters(products, api_keys)
InitExtract ==
    /\ stage = "extract"
    /\ \E n \in 0..(batch_size_extractor + MaxExtra) : products \in ExtractorLists(n)
    /\ api_keys \in KeyLists
    /\ max_retries = 0
    /\ llm = [names |-> {}, errors |-> {RateLimitError},
             extras |-> NoExtras]
    /\ InitRun

NextExtract ==
    \/ NextBatch
    \/ Gather
    \/ \E p \in DOMAIN tasks : ExtractorStart(p)
    \/ \E p \in DOMAIN tasks : ExtractorResume(p)
    \/ \E p \in DOMAIN tasks : ExtractorReturn(p)

SpecExtract == InitExtract /\ [][NextExtract]_vars

\* One product of any kind, any keys, and an LLM that answers about two names
\* or fails in any way
InitExtractOne ==
    /\ stage = "extract"
    /\ products \in {<<ExtractorInput(1, kind)>> : kind \in ExtractorKinds}
    /\ api_keys \in KeyLists
    /\ max_retries = 0
    /\ llm = [names |-> {"manufacturer_name", "net_quantity", "state"}, errors |-> Exceptions,
             extras |-> NoExtras]
    /\ InitRun

\* With a single product no coroutine ever waits for the permit
NextExtractOne ==
    \/ NextBatch
    \/ Gather
    \/ \E p \in DOMAIN tasks : ExtractorStart(p)
    \/ \E p \in DOMAIN tasks : ExtractorReturn(p)

SpecExtractOne == InitExtractOne /\ [][NextExtractOne]_vars

\* Either LLM stage
InitLLM == InitExtract \/ InitValidate

NextLLM ==
    \/ NextBatch
    \/ Gather
    \/ \E p \in DOMAIN tasks : ExtractorStart(p)
    \/ \E p \in DOMAIN tasks : ExtractorResume(p)
    \/ \E p \in DOMAIN tasks : ExtractorReturn(p)
    \/ \E p \in DOMAIN tasks : ValidatorStart(p)
    \/ \E p \in DOMAIN tasks : ValidatorResume(p)
    \/ \E p \in DOMAIN tasks : ValidatorReturn(p)
    \/ \E p \in DOMAIN tasks : ValidatorWake(p)

SpecLLM == InitLLM /\ [][NextLLM]_vars

----------------------------------------------------------------------------
(* Claims about the Validator's verdict *)

MandatoryNames == Range(mandatory_params)

\* The entries of a returned record's validation_results
Results(p) == returned[p].value.validation_results

NonCompliant(p, names) ==
    {n \in DOMAIN Results(p) : Results(p)[n].name \in names /\ ~Results(p)[n].is_compliant}

\* C1: every record process_product returns has policy_decision "APPROVED" if and
\* only if no entry of its validation_results named for a mandatory field
\* (state excluded) has is_compliant false.
C1_ApprovedIffMandatoryCompliant ==
    \A p \in DOMAIN returned :
        returned[p].type = "dict" =>
            (returned[p].value.policy_decision = "APPROVED"
                <=> NonCompliant(p, MandatoryNames) = {})

\* C2: when every entry other than those named state and country_of_origin is
\* compliant, the verdict is "APPROVED", whatever the answer says about state and
\* country_of_origin, and also when it does not mention them.
C2_StateAndCountryNeverDeny ==
    \A p \in DOMAIN returned :
        (/\ returned[p].type = "dict"
         /\ NonCompliant(p, AllNames \ {"state", "country_of_origin"}) = {})
            => returned[p].value.policy_decision = "APPROVED"

\* C10: whenever the Validator has attempted LLM validation of a product, the
\* output validation_results has an entry named for each of the five mandatory
\* fields.
C10_MandatoryEntriesPresent ==
    \A p \in DOMAIN returned :
        (/\ returned[p].type = "dict"
         /\ \/ Truthy(Get(products[p], "compliance_parameters", <<>>))
            \/ Truthy(Get(products[p], "scraped_results", <<>>)))
            => \A name \in MandatoryNames :
                   \E n \in DOMAIN Results(p) : Results(p)[n].name = name

\* C9: every key of the input record is a key of the output element produced
\* for that product, for any api_keys and max_retries and on every path.
C9_InputKeysPreserved ==
    \A p \in DOMAIN returned :
        returned[p] # NotReturned =>
            /\ returned[p].type = "dict"
            /\ DOMAIN products[p] \subseteq DOMAIN returned[p].value

----------------------------------------------------------------------------
(* Claims about the Validator's retries and failover *)

\* The step of p in which its LLM call ends in an exception
CallFails(p) ==
    /\ tasks[p].pc = "call"
    /\ tasks'[p] # tasks[p]
    /\ tasks'[p].last \notin {"ok", "none"}

\* The step of p in which its LLM call ends in a validated answer
CallSucceeds(p) ==
    /\ tasks[p].pc = "call"
    /\ tasks'[p] # tasks[p]
    /\ tasks'[p].last = "ok"

\* r is the placeholder record of an exhausted product
IsExhaustedRecord(r) ==
    /\ r.type = "dict"
    /\ r.value.validation_results # <<>>
    /\ \A n \in DOMAIN r.value.validation_results :
           /\ r.value.validation_results[n].value = "non_stated"
           /\ ~r.value.validation_results[n].is_compliant
    /\ r.value.policy_decision = "DENIED"
    /\ StartsWith(r.value.reason, "API processing error")

\* C3: when the attempts of a product have failed on every key (the call on the
\* last key fails with an error that is not retried), process_product returns, as
\* a normal result, a record whose validation_results entries all have value
\* "non_stated" and is_compliant false, with policy_decision "DENIED" and a
\* reason that begins with "API processing error".
C3_ExhaustedGivesPlaceholder ==
    [][\A p \in DOMAIN tasks :
        CallFails(p) =>
            /\ (/\ tasks[p].api_key_index = Len(api_keys) - 1
                /\ \/ ~Has429(tasks'[p].last)
                   \/ tasks[p].attempt = max_retries - 1)
                   => tasks'[p].pc = "done"
            /\ tasks'[p].pc = "done" => IsExhaustedRecord(returned'[p])]_vars

C3_Witness ==
    \E p \in DOMAIN tasks :
        /\ tasks[p].pc = "done"
        /\ tasks[p].last = RateLimitError
        /\ Len(api_keys) = 2
        /\ IsExhaustedRecord(returned[p])

\* C5: a 429 failure of attempt a (0-based) on key i with a < max_retries - 1 is
\* followed by a wait of exactly 2^a seconds and then by a call on the same key
\* i, attempt a + 1; a key is left after a 429 failure only on its last attempt,
\* and no wait follows it.  A success on the second attempt of the first key has
\* waited exactly 1 second.
C5_BackoffOnSameKey ==
    [][\A p \in DOMAIN tasks :
        /\ (CallFails(p) /\ Has429(tasks'[p].last)) =>
              IF tasks[p].attempt < max_retries - 1
              THEN /\ tasks'[p].pc = "sleep"
                   /\ tasks'[p].wait_time = Pow2(tasks[p].attempt)
                   /\ tasks'[p].api_key_index = tasks[p].api_key_index
                   /\ tasks'[p].attempt = tasks[p].attempt
                   /\ tasks'[p].calls = tasks[p].calls
              ELSE /\ tasks'[p].pc # "sleep"
                   /\ tasks'[p].pc = "call" => tasks'[p].slept = tasks[p].slept
        /\ (tasks[p].pc = "sleep" /\ tasks'[p] # tasks[p]) =>
              /\ tasks'[p].pc = "call"
              /\ tasks'[p].api_key_index = tasks[p].api_key_index
              /\ tasks'[p].attempt = tasks[p].attempt + 1
              /\ tasks'[p].calls = tasks[p].calls + 1
              /\ tasks'[p].slept = tasks[p].slept + Pow2(tasks[p].attempt)
        /\ (CallSucceeds(p) /\ tasks[p].api_key_index = 0 /\ tasks[p].attempt = 1) =>
              /\ tasks[p].calls = 2
              /\ tasks[p].slept = 1
              /\ tasks'[p].pc = "done"
              /\ returned'[p].type = "dict"
              /\ ~IsExhaustedRecord(returned'[p])]_vars

C5_Witness ==
    \E p \in DOMAIN tasks :
        /\ tasks[p].pc = "call"
        /\ tasks[p].api_key_index = 1
        /\ tasks[p].attempt = 2
        /\ tasks[p].slept = 6
        /\ tasks[p].last = RateLimitError

\* C6: a failure that is not a rate-limit error (a failed call, an answer that
\* is not parseable JSON or fails the shape validation) is followed by no wait
\* and by no further attempt on the same key: the next call uses the next key,
\* and after the last key the product ends with the placeholder record.
C6_OtherFailureLeavesKey ==
    [][\A p \in DOMAIN tasks :
        (CallFails(p) /\ tasks'[p].last # RateLimitError) =>
            IF tasks[p].api_key_index < Len(api_keys) - 1
            THEN /\ tasks'[p].pc = "call"
                 /\ tasks'[p].api_key_index = tasks[p].api_key_index + 1
                 /\ tasks'[p].attempt = 0
                 /\ tasks'[p].slept = tasks[p].slept
            ELSE /\ tasks'[p].pc = "done"
                 /\ IsExhaustedRecord(returned'[p])]_vars

----------------------------------------------------------------------------
(* Claims about the batches of the two LLM stages *)

\* C4: at most one model.generate_content call is in flight at any instant.
C4_OneCallInFlight == Cardinality(InFlight) <= 1

C4_Witness ==
    \E p, q \in DOMAIN tasks :
        /\ tasks[p].pc = "call"
        /\ tasks[p].attempt = 1
        /\ tasks[q].pc = "acquire"
        /\ Len(api_semaphore.waiters) = 2

NoDuplicates(s) == \A a, b \in DOMAIN s : a # b => s[a] # s[b]

\* C7: the returned list has as many elements as the input list, its i-th
\* element is what the coroutine of the i-th product returned, whatever the
\* completion order, and no product finishes twice or is left out of its batch.
C7_ResultsAlignedWithInput ==
    /\ \A n \in DOMAIN result :
           /\ n \in DOMAIN products
           /\ result[n] = returned[n]
           /\ result[n] # NotReturned
           /\ result[n].type = "dict" => result[n].value.product_id = products[n].product_id
    /\ NoDuplicates(finished)
    /\ Len(result) = Min(batch_i, Len(products))
    /\ main_pc = "returned" => Len(result) = Len(products)

C7_Witness ==
    /\ main_pc = "loop"
    /\ Len(result) = BatchSize
    /\ Len(products) > BatchSize
    /\ \E n, m \in DOMAIN tasks :
           /\ n < m
           /\ tasks[n].last = RateLimitError
           /\ tasks[m].last = "none"
           /\ tasks[n + 1].last = "ok"
    /\ \E a, b \in DOMAIN finished : a < b /\ finished[a] > finished[b]

----------------------------------------------------------------------------
(* Detail Enricher: extract_products_with_gemini, step 2 *)

\* products[:32]
fetch_limit == 32

\* s.endswith(suffix)
EndsWith(s, suffix) ==
    Len(s) >= Len(suffix) /\ SubSeq(s, Len(s) - Len(suffix) + 1, Len(s)) = suffix

\* [url for url in image_urls if url and url.startswith('https') and ...]
RECURSIVE FilterImages(_)
FilterImages(image_urls) ==
    IF image_urls = <<>> THEN <<>>
    ELSE LET url == Head(image_urls) IN
         IF url # "" /\ StartsWith(url, "https") /\ (EndsWith(url, ".jpg") \/ EndsWith(url, ".png"))
         THEN <<url>> \o FilterImages(Tail(image_urls))
         ELSE FilterImages(Tail(image_urls))

\* list(dict.fromkeys(image_urls)): the first occurrence of each url, in order
Deduplicate_Nothing(image_urls) == image_urls
RECURSIVE Deduplicate(_)
Deduplicate(image_urls) ==
    IF image_urls = <<>> THEN <<>>
    ELSE LET rest == Deduplicate(SubSeq(image_urls, 1, Len(image_urls) - 1))
             url == image_urls[Len(image_urls)]
         IN  IF url \in Range(rest) THEN rest ELSE Append(rest, url)

\* The web: what the page behind a product url holds.  "gone" pages fail to
\* load, "odd" pages make the parsing raise, the others list images and details
PageKind(url) ==
    IF Contains(url, "/gone/") THEN "error"
    ELSE IF Contains(url, "/odd/") THEN "raises"
    ELSE "page"

\* image_urls as collected from the page, before the filter
PageImages(url) ==
    [n \in DOMAIN web |-> IF web[n] \in HostedImages THEN url \o web[n] ELSE web[n]]

\* get_amazon_product_details(session, product_url), as gather sees it
ProductDetails(url) ==
    IF PageKind(url) = "error" THEN Dict([images |-> <<>>, scraped_results |-> <<>>])
    ELSE IF PageKind(url) = "raises" THEN Raised("'list' object has no attribute 'get'")
    ELSE Dict([images |-> Deduplicate(FilterImages(PageImages(url))),
               scraped_results |-> [non_stated_scraped_results EXCEPT !.item_weight = "500 g"]])

\* fetch_with_sem with an empty url
NoUrlDetails == Dict([images |-> <<>>, scraped_results |-> <<>>])

\* p leaves `async with sem` and returns retval
FetchReturns(p, retval) ==
    /\ returned' = [returned EXCEPT ![p] = retval]
    /\ finished' = Append(finished, p)
    /\ sem' = Released(sem)
    /\ tasks' = [q \in DOMAIN tasks |->
                    IF q = p THEN DoneTask("none")
                    ELSE IF q = Woken(sem) THEN [tasks[q] EXCEPT !.pc = "granted"]
                    ELSE tasks[q]]

\* tasks = [fetch_with_sem(...) for product in products[:32]]; gather(*tasks)
CreateFetches ==
    /\ stage = "enrich"
    /\ main_pc = "loop"
    /\ tasks' = [p \in DOMAIN tasks |->
                    IF p <= fetch_limit THEN [tasks[p] EXCEPT !.pc = "ready"] ELSE tasks[p]]
    /\ main_pc' = "gather"
    /\ UNCHANGED <<args, returned, api_semaphore, sem, batch_i, finished, result>>

\* fetch_with_sem runs from its start to its first suspension
FetchStart(p) ==
    /\ stage = "enrich"
    /\ MayStart(p)
    /\ IF Locked(sem)
       THEN /\ sem' = [sem EXCEPT !.waiters = Append(@, p)]
            /\ tasks' = [tasks EXCEPT ![p] = [@ EXCEPT !.pc = "acquire"]]
            /\ UNCHANGED <<returned, finished>>
       ELSE IF Get(products[p], "product_url", "") # ""
       THEN /\ sem' = [sem EXCEPT !.value = @ - 1]
            /\ tasks' = [tasks EXCEPT ![p] = [@ EXCEPT !.pc = "fetch"]]
            /\ UNCHANGED <<returned, finished>>
       ELSE /\ returned' = [returned EXCEPT ![p] = NoUrlDetails]
            /\ finished' = Append(finished, p)
            /\ tasks' = [tasks EXCEPT ![p] = DoneTask("none")]
            /\ UNCHANGED sem
    /\ UNCHANGED <<args, main, api_semaphore>>

\* a waiter that was handed a permit resumes
FetchResume(p) ==
    /\ stage = "enrich"
    /\ p \in DOMAIN tasks
    /\ tasks[p].pc = "granted"
    /\ IF Get(products[p], "product_url", "") # ""
       THEN /\ tasks' = [tasks EXCEPT ![p] = [@ EXCEPT !.pc = "fetch"]]
            /\ UNCHANGED <<returned, finished, sem>>
       ELSE FetchReturns(p, NoUrlDetails)
    /\ UNCHANGED <<args, main, api_semaphore>>

\* get_amazon_product_details returns or raises
FetchEnd(p) ==
    /\ stage = "enrich"
    /\ p \in DOMAIN tasks
    /\ tasks[p].pc = "fetch"
    /\ FetchReturns(p, ProductDetails(products[p].product_url))
    /\ UNCHANGED <<args, main, api_semaphore>>

\* results = await asyncio.gather(*tasks, return_exceptions=True)
FetchResults == [n \in 1..Min(Len(products), fetch_limit) |-> returned[n]]

\* One step of `for product, result in zip(products[:32], results)`
Enriched(product, res) ==
    IF res.type # "Exception"
    THEN Update(product, [all_images |-> res.value.images,
                          scraped_results |-> res.value.scraped_results])
    ELSE Update(product, [all_images |-> <<>>, scraped_results |-> <<>>])

\* print(f"... for '{product['product_name']}'."): KeyError without the key
PrintRaises(product, res) ==
    res.type # "Exception" /\ "product_name" \notin DOMAIN product

\* The zip loop builds all_data, which is written to the output file unless
\* the loop raises
ZipResults ==
    /\ stage = "enrich"
    /\ main_pc = "gather"
    /\ \A p \in DOMAIN tasks : p <= fetch_limit => tasks[p].pc = "done"
    /\ LET zipped == 1..Min(Min(Len(products), fetch_limit), Len(FetchResults))
       IN  IF \E n \in zipped : PrintRaises(products[n], FetchResults[n])
           THEN /\ main_pc' = "raised"
                /\ UNCHANGED result
           ELSE /\ result' = [n \in zipped |-> Enriched(products[n], FetchResults[n])]
                /\ main_pc' = "returned"
    /\ UNCHANGED <<args, tasks, returned, api_semaphore, sem, batch_i, finished>>

\* A stub that the extraction returned without the field k
Without(d, k) == [j \in (DOMAIN d) \ {k} |-> d[j]]

\* Product stubs as the Listing Fetcher leaves them
EnricherStub(n, kind) ==
    Update(Stub(n),
           [product_url |-> IF kind = "none" THEN ""
                            ELSE IF kind = "error" THEN "https://www.amazon.in/gone/" \o ProductId(n)
                            ELSE IF kind = "raises" THEN "https://www.amazon.in/odd/" \o ProductId(n)
                            ELSE "https://www.amazon.in/dp/" \o ProductId(n),
            rating |-> "4.2"])

\* Short lists, most stubs with a page to fetch, the first one with or without
\* a product_name
MaxShort == 7
ShortKinds == <<"page", "error", "page", "raises", "page", "page", "none", "page">>
ShortLists ==
    {[p \in 1..n |->
        LET stub == EnricherStub(p, ShortKinds[((p + shift) % Len(ShortKinds)) + 1])
        IN  IF p = 1 /\ ~named THEN Without(stub, "product_name") ELSE stub] :
        n \in 0..MaxShort, shift \in 0..1, named \in BOOLEAN}

\* Lists around the limit of 32, few stubs with a page to fetch
MaxOver == 1
LongLists ==
    {[p \in 1..n |-> EnricherStub(p, IF p = 2 \/ p = fetch_limit + 1 THEN "page"
                                      ELSE IF p = fetch_limit THEN kind ELSE "none")] :
        n \in (fetch_limit - 1)..(fetch_limit + MaxOver), kind \in {"page", "error", "raises"}}

InitEnrich ==
    /\ stage = "enrich"
    /\ products \in ShortLists \cup LongLists
    /\ api_keys = <<>>
    /\ max_retries = 0
    /\ llm = [names |-> {}, errors |-> {},
             extras |-> NoExtras]
    /\ InitRun

NextEnrich ==
    \/ CreateFetches
    \/ ZipResults
    \/ \E p \in DOMAIN tasks : FetchStart(p)
    \/ \E p \in DOMAIN tasks : FetchResume(p)
    \/ \E p \in DOMAIN tasks : FetchEnd(p)

SpecEnrich == InitEnrich /\ [][NextEnrich]_vars

\* C8: the array the Detail Enricher writes has as many records as the list of
\* stubs, whatever its length, and its i-th record is the i-th stub with
\* all_images and scraped_results added.
C8_EveryStubEnriched ==
    (stage = "enrich" /\ main_pc \in {"returned", "raised"}) =>
        /\ Len(result) = Len(products)
        /\ \A n \in DOMAIN result :
               /\ \A k \in DOMAIN products[n] : result[n][k] = products[n][k]
               /\ DOMAIN result[n] = DOMAIN products[n] \cup {"all_images", "scraped_results"}


----------------------------------------------------------------------------
(* Claims about the shortcuts and the permit of the LLM stages *)

\* The product has neither compliance_parameters nor scraped_results
HasNoData(product) ==
    /\ ~Truthy(Get(product, "compliance_parameters", <<>>))
    /\ ~Truthy(Get(product, "scraped_results", <<>>))

\* C11: a product with no compliance_parameters and no scraped_results gets, in
\* the step in which its coroutine starts, the record with validation_results
\* [], policy_decision "DENIED", the "Missing all mandatory ..." reason and
\* report_id "report_<product_id>_no_data"; the step leaves the LLM permit
\* untouched, and the product never waits for the permit nor makes an LLM call.
C11_NoDataShortcut ==
    [][\A p \in DOMAIN tasks :
        (stage = "validate" /\ HasNoData(products[p])) =>
            /\ tasks'[p].pc \in {"pending", "ready", "done"}
            /\ (tasks[p].pc = "ready" /\ tasks'[p] # tasks[p]) =>
                  /\ tasks'[p].pc = "done"
                  /\ tasks'[p].last = "none"
                  /\ api_semaphore' = api_semaphore
                  /\ returned'[p].type = "dict"
                  /\ returned'[p].value.validation_results = <<>>
                  /\ returned'[p].value.policy_decision = "DENIED"
                  /\ returned'[p].value.reason =
                        "Missing all mandatory compliance parameters and scraped results"
                  /\ returned'[p].value.report_id =
                        "report_" \o products[p].product_id \o "_no_data"]_vars

C11_Witness ==
    /\ stage = "validate"
    /\ \E p, q \in DOMAIN tasks :
           /\ q < p
           /\ HasNoData(products[p])
           /\ tasks[p].pc = "done"
           /\ returned[p].type = "dict"
           /\ tasks[q].pc = "sleep"
           /\ Locked(api_semaphore)

----------------------------------------------------------------------------
(* main() of the Parameter Extractor and of the Validator *)

\* with open(<input file>) as f: products = json.load(f); FileNotFoundError is
\* logged and main() ends
MainRead ==
    /\ main_pc = "main"
    /\ main_pc' = IF files.input THEN "entry" ELSE "failed"
    /\ UNCHANGED <<args, tasks, returned, api_semaphore, sem, batch_i, finished, result>>

\* The stage function up to its batch loop: the Validator reads rules_file and
\* returns [] when it is not found, the Parameter Extractor has nothing to read
Setup ==
    /\ main_pc = "entry"
    /\ main_pc' = IF stage = "validate" /\ ~files.rules THEN "returned" ELSE "loop"
    /\ UNCHANGED <<args, tasks, returned, api_semaphore, sem, batch_i, finished, result>>

\* with open(output_file, "w") as f: json.dump(<what the stage function returned>, f)
MainWrite ==
    /\ stage \in {"extract", "validate"}
    /\ main_pc = "returned"
    /\ files' = [files EXCEPT !.output = [written |-> TRUE, data |-> result]]
    /\ main_pc' = "saved"
    /\ UNCHANGED <<stage, products, api_keys, max_retries, llm, web, tasks, returned,
                   api_semaphore, sem, batch_i, finished, result>>

\* The lists main() may find in its input file, up to MaxRead products
MaxRead == 2
InitMain ==
    /\ stage \in {"extract", "validate"}
    /\ \E n \in 0..MaxRead :
          products \in IF stage = "validate" THEN ValidatorLists(n) ELSE ExtractorLists(n)
    /\ api_keys = <<"GEMINI_API_KEY", "GEMINI_API_KEY_2">>
    /\ max_retries = IF stage = "validate" THEN default_max_retries ELSE 0
    /\ llm = [names |-> {}, errors |-> {RateLimitError},
             extras |-> NoExtras]
    /\ files \in [input : BOOLEAN, rules : BOOLEAN, output : {NotWritten}]
    /\ web = DefaultListing
    /\ tasks = [p \in DOMAIN products |-> NewTask]
    /\ returned = [p \in DOMAIN products |-> NotReturned]
    /\ api_semaphore = ApiSemaphore
    /\ sem = EnricherSemaphore
    /\ batch_i = 0
    /\ finished = <<>>
    /\ result = <<>>
    /\ main_pc = "main"

NextMain ==
    \/ MainRead
    \/ Setup
    \/ MainWrite
    \/ NextLLM

SpecMain == InitMain /\ [][NextMain]_vars

\* C12: when the input file of the stage is missing, or the rules file of the
\* Validator is missing, main() ends without having written its output file.
C12_NoOutputOnSetupError ==
    (~files.input \/ (stage = "validate" /\ ~files.rules)) => ~files.output.written

----------------------------------------------------------------------------
(* Claims about the Detail Enricher's fan-out and its records *)

\* The get_amazon_product_details calls in flight
InFetch == {p \in DOMAIN tasks : tasks[p].pc = "fetch"}

\* What the page of a stub shows: its two https images, when it has a page
OwnImages(product) ==
    IF Get(product, "product_url", "") = "" \/ PageKind(product.product_url) # "page"
    THEN <<>>
    ELSE <<product.product_url \o "/a.jpg", product.product_url \o "/b.png">>

\* C13: at most 5 fetches are in flight at any instant; the fetches that wait
\* for the semaphore wait in input order and none submitted after a waiting one
\* is admitted before it; every written record carries the images of its own
\* page, whatever the completion order.
C13_FiveFetchesInSubmissionOrder ==
    stage = "enrich" =>
        /\ Cardinality(InFetch) <= 5
        /\ \A a, b \in DOMAIN sem.waiters : a < b => sem.waiters[a] < sem.waiters[b]
        /\ \A a \in DOMAIN sem.waiters : \A q \in DOMAIN tasks :
               q > sem.waiters[a] => tasks[q].pc \in {"pending", "ready", "acquire"}
        /\ main_pc = "returned" =>
               \A n \in DOMAIN result :
                   /\ result[n].product_id = products[n].product_id
                   /\ result[n].all_images = OwnImages(products[n])

C13_Witness ==
    /\ stage = "enrich"
    /\ Cardinality(InFetch) = 5
    /\ \E p \in InFetch : p > 6
    /\ \E a, b \in DOMAIN finished : a < b /\ finished[a] > finished[b]

\* One stub of any kind and a page that lists up to MaxImages image sources
MaxImages == 3
ImageSources == HostedImages \cup {"", "http://m.media-amazon.com/d.jpg", "//m.media-amazon.com/e.png"}
Listings == UNION {[1..n -> ImageSources] : n \in 0..MaxImages}

InitImages ==
    /\ stage = "enrich"
    /\ products \in {<<EnricherStub(1, kind)>> : kind \in {"page", "error", "raises", "none"}}
    /\ api_keys = <<>>
    /\ max_retries = 0
    /\ llm = [names |-> {}, errors |-> {},
             extras |-> NoExtras]
    /\ files = FilesPresent
    /\ web \in Listings
    /\ tasks = [p \in DOMAIN products |-> NewTask]
    /\ returned = [p \in DOMAIN products |-> NotReturned]
    /\ api_semaphore = ApiSemaphore
    /\ sem = EnricherSemaphore
    /\ batch_i = 0
    /\ finished = <<>>
    /\ result = <<>>
    /\ main_pc = "loop"

\* With a single stub no fetch ever waits for a permit
NextImages ==
    \/ CreateFetches
    \/ ZipResults
    \/ \E p \in DOMAIN tasks : FetchStart(p)
    \/ \E p \in DOMAIN tasks : FetchEnd(p)

SpecImages == InitImages /\ [][NextImages]_vars

\* The listed sources that are https and .jpg or .png, as urls of the page
GoodImages(product) ==
    IF Get(product, "product_url", "") = "" \/ PageKind(product.product_url) # "page"
    THEN {}
    ELSE {product.product_url \o web[n] : n \in {m \in DOMAIN web : web[m] \in {"/a.jpg", "/b.png"}}}

\* The index of the first listed source that gives url
FirstListed(product, url) ==
    CHOOSE n \in DOMAIN web :
        /\ product.product_url \o web[n] = url
        /\ \A m \in 1..(n - 1) : product.product_url \o web[m] # url

\* C14: in every written record all_images has no url twice, holds exactly the
\* listed sources that start with "https" and end in ".jpg" or ".png", in the
\* order of their first occurrence on the page; sources a.jpg, a.jpg, b.png
\* give a.jpg, b.png; on the failure paths all_images is the empty list.
C14_ImagesFilteredAndDeduplicated ==
    (stage = "enrich" /\ main_pc = "returned") =>
        \A n \in DOMAIN result :
            LET all_images == result[n].all_images IN
            /\ NoDuplicates(all_images)
            /\ Range(all_images) = GoodImages(products[n])
            /\ \A a, b \in DOMAIN all_images :
                   a < b => FirstListed(products[n], all_images[a])
                                < FirstListed(products[n], all_images[b])
            /\ (web = <<"/a.jpg", "/a.jpg", "/b.png">> /\ GoodImages(products[n]) # {}) =>
                   all_images = <<products[n].product_url \o "/a.jpg",
                                  products[n].product_url \o "/b.png">>

C14_Witness ==
    /\ stage = "enrich"
    /\ main_pc = "returned"
    /\ web = <<"/b.png", "/a.jpg", "/b.png">>
    /\ Len(result) = 1
    /\ Len(result[1].all_images) = 2

\* C15: in every written record scraped_results has exactly the keys mrp,
\* manufacturer_address, packer_address and item_weight, whatever the outcome
\* of the fetch of its page.
C15_ScrapedResultsFourKeys ==
    (stage = "enrich" /\ main_pc = "returned") =>
        \A n \in DOMAIN result :
            DOMAIN result[n].scraped_results =
                {"mrp", "manufacturer_address", "packer_address", "item_weight"}

----------------------------------------------------------------------------
(* Claims about the Parameter Extractor *)

\* C16: when an LLM call of the Parameter Extractor fails with a rate-limit
\* (429) error, the product stays on the same key: it waits and then calls
\* again with that key, rather than moving to the next key or giving up.
C16_ExtractorBacksOffOnSameKey ==
    [][\A p \in DOMAIN tasks :
        (stage = "extract" /\ CallFails(p) /\ tasks'[p].last = RateLimitError) =>
            /\ tasks'[p].pc = "sleep"
            /\ tasks'[p].api_key_index = tasks[p].api_key_index]_vars

\* cp is the list of the eight placeholder parameters, each "non_stated"
IsPlaceholderList(cp) ==
    /\ [n \in DOMAIN cp |-> cp[n].name] =
          <<"manufacturer_name", "manufacturer_address", "net_quantity",
            "consumer_care_address", "consumer_care_phone", "consumer_care_email",
            "country_of_origin", "state">>
    /\ \A n \in DOMAIN cp : cp[n].value = "non_stated"

\* C17: a product with no OCR text and a product whose LLM call has failed on
\* every key both return, as a normal result, a record whose
\* compliance_parameters is the list of the eight placeholder parameters; a
\* product with OCR text and at least one key ends with the model's validated
\* list or with that placeholder list.
C17_ExtractorPlaceholder ==
    \A p \in DOMAIN tasks :
        (stage = "extract" /\ tasks[p].pc = "done") =>
            /\ returned[p].type # "Exception"
            /\ OcrText(products[p]) = "" =>
                  /\ returned[p].type = "dict"
                  /\ IsPlaceholderList(returned[p].value.compliance_parameters)
            /\ tasks[p].last \notin {"ok", "none"} =>
                  /\ returned[p].type = "dict"
                  /\ IsPlaceholderList(returned[p].value.compliance_parameters)
            /\ (OcrText(products[p]) # "" /\ api_keys # <<>>) =>
                  /\ returned[p].type = "dict"
                  /\ \/ IsPlaceholderList(returned[p].value.compliance_parameters)
                     \/ /\ tasks[p].last = "ok"
                        /\ returned[p].value.compliance_parameters \in ExtractorResponses(llm.names)

C17_Witness ==
    /\ stage = "extract"
    /\ Len(api_keys) = 2
    /\ \E p \in DOMAIN tasks :
           /\ tasks[p].pc = "done"
           /\ tasks[p].last = InvalidStructure
           /\ OcrText(products[p]) # ""
           /\ Len(returned[p].value.compliance_parameters) = 8

----------------------------------------------------------------------------
(* Image OCR Processor: perform_ocr_on_images *)

\* s.strip(), for the blanks that joining can leave at the ends
RECURSIVE Strip(_)
Strip(s) ==
    IF s = "" THEN ""
    ELSE IF SubSeq(s, 1, 1) = " " THEN Strip(SubSeq(s, 2, Len(s)))
    ELSE IF SubSeq(s, Len(s), Len(s)) = " " THEN Strip(SubSeq(s, 1, Len(s) - 1))
    ELSE s

\* [txt for txt in result.txts if txt]
RECURSIVE NonEmpty(_)
NonEmpty(txts) ==
    IF txts = <<>> THEN <<>>
    ELSE IF Head(txts) # "" THEN <<Head(txts)>> \o NonEmpty(Tail(txts))
    ELSE NonEmpty(Tail(txts))

\* ocr_engine(url): what the engine reads on each image, or that it raises
front_jpg == "https://m.media-amazon.com/images/I/front.jpg"
back_jpg == "https://m.media-amazon.com/images/I/back.jpg"
blank_jpg == "https://m.media-amazon.com/images/I/blank.jpg"
broken_jpg == "https://m.media-amazon.com/images/I/broken.jpg"

Images == {front_jpg, back_jpg, blank_jpg, broken_jpg}

OcrEngine(url) ==
    IF url = front_jpg THEN [raises |-> FALSE, txts |-> <<"Net Qty", "", "500g ">>]
    ELSE IF url = back_jpg THEN [raises |-> FALSE, txts |-> <<"Mfd by ACME Foods, Pune">>]
    ELSE IF url = blank_jpg THEN [raises |-> FALSE, txts |-> <<>>]
    ELSE [raises |-> TRUE, txts |-> <<>>]

\* perform_ocr(url, ocr_engine)
perform_ocr(url) ==
    LET res == OcrEngine(url) IN
    IF res.raises THEN ""
    ELSE IF res.txts # <<>> THEN Strip(Join(NonEmpty(res.txts), " "))
    ELSE ""

\* The product the loops have reached: the batches are slices of products
\* taken in order and nothing is awaited, so it is the one after those done
CurrentProduct == products[Len(result) + 1]

\* The texts appended in the as_completed loop, futures being the positions in
\* image_urls in the order in which they completed
RECURSIVE CollectedTexts(_, _)
CollectedTexts(image_urls, futures) ==
    IF futures = <<>> THEN <<>>
    ELSE LET text == perform_ocr(image_urls[Head(futures)]) IN
         (IF text # "" THEN <<text>> ELSE <<>>) \o CollectedTexts(image_urls, Tail(futures))

\* for product in batch: a product without images is appended at once, for
\* the others one perform_ocr per image is submitted to the thread pool
OcrProduct ==
    /\ stage = "ocr"
    /\ main_pc = "loop"
    /\ Len(result) < Len(products)
    /\ IF Get(CurrentProduct, "all_images", <<>>) = <<>>
       THEN /\ result' = Append(result, Dict(Update(CurrentProduct, [ocr_results |-> <<>>])))
            /\ UNCHANGED <<main_pc, finished>>
       ELSE /\ main_pc' = "as_completed"
            /\ finished' = <<>>
            /\ UNCHANGED result
    /\ UNCHANGED <<args, tasks, returned, api_semaphore, sem, batch_i>>

\* A worker thread finishes perform_ocr for the image at position u
OcrFuture(u) ==
    /\ stage = "ocr"
    /\ main_pc = "as_completed"
    /\ u \in DOMAIN CurrentProduct.all_images
    /\ u \notin Range(finished)
    /\ finished' = Append(finished, u)
    /\ UNCHANGED <<args, tasks, returned, api_semaphore, sem, batch_i, result, main_pc>>

\* for future in as_completed(future_to_url) has seen every future;
\* structured_data.append(product_info)
OcrCollect ==
    /\ stage = "ocr"
    /\ main_pc = "as_completed"
    /\ Len(finished) = Len(CurrentProduct.all_images)
    /\ result' = Append(result, Dict(Update(CurrentProduct,
                    [ocr_results |-> CollectedTexts(CurrentProduct.all_images, finished)])))
    /\ main_pc' = "loop"
    /\ UNCHANGED <<args, tasks, returned, api_semaphore, sem, batch_i, finished>>

\* return structured_data
OcrReturn ==
    /\ stage = "ocr"
    /\ main_pc = "loop"
    /\ Len(result) = Len(products)
    /\ main_pc' = "returned"
    /\ UNCHANGED <<args, tasks, returned, api_semaphore, sem, batch_i, finished, result>>

\* The records the OCR stage reads: a first product with up to MaxOcrImages
\* images, or without the all_images key, and perhaps a second one
MaxOcrImages == 3
OcrInputs ==
    {Stub(1)} \cup {Update(Stub(1), [all_images |-> urls]) :
                        urls \in UNION {[1..n -> Images] : n \in 0..MaxOcrImages}}
OcrLists ==
    {<<>>} \cup {<<first>> : first \in OcrInputs}
           \cup {<<first, Update(Stub(2), [all_images |-> <<back_jpg, front_jpg>>])>> :
                    first \in OcrInputs}

InitOcr ==
    /\ stage = "ocr"
    /\ products \in OcrLists
    /\ api_keys = <<>>
    /\ max_retries = 0
    /\ llm = [names |-> {}, errors |-> {},
             extras |-> NoExtras]
    /\ InitRun

NextOcr ==
    \/ OcrProduct
    \/ OcrCollect
    \/ OcrReturn
    \/ \E u \in 1..MaxOcrImages : OcrFuture(u)

SpecOcr == InitOcr /\ [][NextOcr]_vars

\* The texts of the images in all_images order, the empty ones dropped
RECURSIVE TextsInImageOrder(_)
TextsInImageOrder(image_urls) ==
    IF image_urls = <<>> THEN <<>>
    ELSE LET text == IF Head(image_urls) = front_jpg THEN "Net Qty 500g"
                     ELSE IF Head(image_urls) = back_jpg THEN "Mfd by ACME Foods, Pune"
                     ELSE ""
         IN  (IF text # "" THEN <<text>> ELSE <<>>) \o TextsInImageOrder(Tail(image_urls))

\* C18: for every product, ocr_results is the sequence of the OCR texts of its
\* images in all_images order with the empty texts dropped, whatever the order
\* in which the worker threads complete.
C18_OcrResultsInImageOrder ==
    stage = "ocr" =>
        \A n \in DOMAIN result :
            result[n].value.ocr_results =
                TextsInImageOrder(Get(products[n], "all_images", <<>>))

----------------------------------------------------------------------------
(* Claims about the permit and the batches of the LLM stages *)

\* The products that hold the LLM permit
Holders == {p \in DOMAIN tasks : tasks[p].pc \in {"granted", "call", "sleep"}}

\* The positions a product list can have
Positions == 1..(batch_size_validator + MaxExtra)

\* C19: a product holds the single LLM permit from before its first call, across
\* key switches and backoff waits, until it returns, so no other product makes
\* a call in between; the permit is released on return, is free once every
\* product has finished, and every product that waits for it gets it.
C19_PermitHeldThenReleased ==
    /\ [](/\ Cardinality(Holders) <= 1
          /\ api_semaphore.value = 1 - Cardinality(Holders)
          /\ \A p \in DOMAIN tasks :
                 tasks[p].pc = "acquire" <=> p \in Range(api_semaphore.waiters)
          /\ main_pc = "returned" => api_semaphore = [value |-> 1, waiters |-> <<>>])
    /\ [][\A p \in DOMAIN tasks :
            /\ (tasks[p].pc \in {"call", "sleep"} /\ tasks'[p].pc # "done") =>
                   /\ tasks'[p].pc \in {"call", "sleep"}
                   /\ tasks'[p] # tasks[p] => api_semaphore' = api_semaphore
                   /\ \A q \in DOMAIN tasks : q # p => tasks'[q].pc # "call"
            /\ (p \in Holders /\ tasks'[p].pc = "done") =>
                   p \notin Range(api_semaphore.waiters) /\ Holders' \subseteq {Woken(api_semaphore)}]_vars
    /\ \A p \in Positions :
           (p \in DOMAIN tasks /\ tasks[p].pc = "acquire")
               ~> (p \in DOMAIN tasks /\ tasks[p].pc \in {"call", "done"})

C19_Witness ==
    /\ stage = "validate"
    /\ \E p, q, r \in DOMAIN tasks :
           /\ tasks[r].pc = "done"
           /\ tasks[r].last = "ok"
           /\ tasks[p].pc = "call"
           /\ tasks[p].api_key_index = 1
           /\ tasks[p].last = RateLimitError
           /\ tasks[q].pc = "acquire"

\* The number of the batch of the product at position p, from 0
BatchOf(p) == (p - 1) \div (IF stage = "validate" THEN 3 ELSE 4)

\* C20: no product of a later batch has a coroutine, started or not, while a
\* product of an earlier batch has not finished; the result list holds whole
\* batches only, each appended after all its products have finished, in input
\* order.
C20_BatchBarrier ==
    stage \in {"extract", "validate"} =>
        /\ \A p, q \in DOMAIN tasks :
               (BatchOf(p) < BatchOf(q) /\ tasks[q].pc # "pending") => tasks[p].pc = "done"
        /\ \A n \in DOMAIN result :
               /\ result[n] = returned[n]
               /\ \A p \in DOMAIN tasks : BatchOf(p) = BatchOf(n) =>
                      tasks[p].pc = "done" /\ p \in DOMAIN result
        /\ \A p \in DOMAIN tasks :
               (tasks[p].pc = "done" /\ p \notin DOMAIN result) => main_pc = "gather"

C20_Witness ==
    /\ stage \in {"extract", "validate"}
    /\ main_pc = "gather"
    /\ result = <<>>
    /\ \E p, q, r \in DOMAIN tasks :
           /\ BatchOf(p) = 0 /\ tasks[p].pc = "done" /\ tasks[p].last = "ok"
           /\ BatchOf(q) = 0 /\ tasks[q].pc = "call" /\ p < q
           /\ BatchOf(r) = 1 /\ tasks[r].pc = "pending"


----------------------------------------------------------------------------
(* Claims about the termination of the Validator *)

\* validate_compliance_parameters on short lists, with any keys and retries and
\* an LLM whose calls fail in any way; every LLM call and every sleep ends
InitTerminate ==
    /\ stage = "validate"
    /\ \E n \in 0..(1 + MaxExtra) : products \in ValidatorLists(n)
    /\ api_keys \in KeyLists
    /\ max_retries \in 0..MaxRetries
    /\ llm = [names |-> {}, errors |-> Exceptions,
             extras |-> NoExtras]
    /\ InitRun

SpecTerminate == InitTerminate /\ [][NextValidate]_vars /\ WF_vars(NextValidate)

\* The most LLM calls and the most seconds of backoff of one product
CallBound == Len(api_keys) * max_retries
BackoffBound == Len(api_keys) * (Pow2(max_retries - 1) - 1)

\* The seconds p has slept or is about to sleep
Backoff(p) == tasks[p].slept + (IF tasks[p].pc = "sleep" THEN tasks[p].wait_time ELSE 0)

\* C21: with at least one key and at least one allowed attempt, a product with
\* data ends in a validated record or in the placeholder record, after at most
\* K * M LLM calls and at most K * (2^(M-1) - 1) seconds of backoff; keys are
\* tried in list order from the first, the key index never decreases; and the
\* run over the whole list returns.
C21_ProcessProductTerminates ==
    /\ [](\A p \in DOMAIN tasks :
            (Len(api_keys) >= 1 /\ max_retries >= 1 /\ tasks[p].pc \in {"call", "sleep"}) =>
                /\ tasks[p].api_key_index \in 0..(Len(api_keys) - 1)
                /\ tasks[p].attempt \in 0..(max_retries - 1)
                /\ tasks[p].calls <= tasks[p].api_key_index * max_retries + tasks[p].attempt + 1
                /\ tasks[p].calls <= CallBound
                /\ Backoff(p) <= BackoffBound)
    /\ [][\A p \in DOMAIN tasks :
            (Len(api_keys) >= 1 /\ max_retries >= 1 /\ tasks'[p] # tasks[p]) =>
                /\ tasks'[p].pc = "call" =>
                       /\ tasks'[p].calls = tasks[p].calls + 1
                       /\ IF tasks[p].pc \in {"call", "sleep"}
                          THEN tasks'[p].api_key_index \in
                                   {tasks[p].api_key_index, tasks[p].api_key_index + 1}
                          ELSE tasks'[p].api_key_index = 0
                /\ (tasks[p].pc = "call" /\ tasks'[p].pc = "done") =>
                       /\ tasks[p].calls \in 1..CallBound
                       /\ tasks[p].slept <= BackoffBound
                       /\ IF tasks'[p].last = "ok"
                          THEN returned'[p].type = "dict" /\ ~IsExhaustedRecord(returned'[p])
                          ELSE IsExhaustedRecord(returned'[p])
                /\ (~HasNoData(products[p]) /\ tasks'[p].pc = "done") =>
                       tasks[p].pc = "call"]_vars
    /\ <>(main_pc = "returned")

C21_Witness ==
    \E p \in DOMAIN tasks :
        /\ Len(api_keys) = MaxKeys
        /\ max_retries = MaxRetries
        /\ tasks[p].pc = "call"
        /\ tasks[p].api_key_index = Len(api_keys) - 1
        /\ tasks[p].attempt = max_retries - 1
        /\ tasks[p].calls = CallBound
        /\ tasks[p].slept = BackoffBound

----------------------------------------------------------------------------
(* Claims about what the Validator leaves alone *)

\* main()'s keys and retries on one product of any kind, and an LLM whose
\* answers may carry top-level keys beyond the three asked for
InitFrame ==
    /\ stage = "validate"
    /\ products \in {<<ValidatorInput(1, kind)>> : kind \in ValidatorKinds}
    /\ api_keys = <<"GEMINI_API_KEY", "GEMINI_API_KEY_2">>
    /\ max_retries = default_max_retries
    /\ llm = [names |-> {"net_quantity"}, errors |-> {RateLimitError, InvalidStructure},
              extras |-> ExtraKeys]
    /\ InitRun

SpecFrame == InitFrame /\ [][NextValidateOne]_vars

\* The keys the success path may set
VerdictKeys == {"validation_results", "policy_decision", "reason", "report_id"}

\* C22: a record returned on the success path has the keys of its input record
\* and validation_results, policy_decision, reason and report_id, no others, and
\* every input field other than these four keeps its input value, whatever
\* shape-valid object the model answered with.
C22_SuccessLeavesInputFields ==
    \A p \in DOMAIN tasks :
        (tasks[p].pc = "done" /\ tasks[p].last = "ok") =>
            /\ returned[p].type = "dict"
            /\ DOMAIN returned[p].value = DOMAIN products[p] \cup VerdictKeys
            /\ \A k \in DOMAIN products[p] \ VerdictKeys :
                   returned[p].value[k] = products[p][k]
====
